---- MODULE Spec2Model ----
(***************************************************************************)
(* Model of django_otp/plugins/otp_totp/admin.py: the TOTPDeviceAdmin      *)
(* adapter (list display, fieldsets, QR link cell, the config and qrcode   *)
(* views) and its module-level registration.                               *)
(***************************************************************************)
EXTENDS Integers, Sequences, FiniteSets, TLC

\* ---------------------------------------------------------------- bounds
MaxPk == 2          \* primary keys 1..MaxPk
MaxImports == 2     \* how often the module body is executed (double import)

PKs == 1..MaxPk
None == -1          \* Python None where a pk / obj is expected

VARIABLES
    OTP_ADMIN_HIDE_SENSITIVE_DATA,  \* settings.OTP_ADMIN_HIDE_SENSITIVE_DATA
    objects,         \* TOTPDevice.objects: the pks of the stored devices
    qr_available,    \* whether a QR rendering module can be imported
    route_registered,\* whether admin:otp_totp_totpdevice_config reverses
    registry,        \* admin.site: sequence of registered <<model, admin>>
    imports,         \* number of executions of the module body so far
    import_error,    \* exception that escaped the module body, or "none"
    list_display,    \* TOTPDeviceAdmin.list_display (class attribute)
    op,              \* the last adapter call: [name, perms, pk, seq]
    ret              \* what that call returned or raised

env == <<OTP_ADMIN_HIDE_SENSITIVE_DATA, objects, qr_available, route_registered>>
vars == <<OTP_ADMIN_HIDE_SENSITIVE_DATA, objects, qr_available, route_registered,
          registry, imports, import_error, list_display,
          op, ret>>

\* ------------------------------------------------------ class attributes
base_list_display == <<"user", "name", "created_at", "last_used_at", "confirmed">>

\* ------------------------------------------------------- collaborators
\* TOTPDevice.objects.get(pk=pk): the device, or DoesNotExist
Exists(pk) == pk \in objects
Device(pk) == [pk |-> pk]

\* device.config_url: the provisioning URI of the device
config_url(device) == <<"otpauth://totp", device.pk>>

\* write_qrcode_image(data, out): SVG of data, or ModuleNotFoundError
write_qrcode_image(data) ==
    IF qr_available
    THEN [raised |-> "none", content |-> <<"svg", data>>]
    ELSE [raised |-> "ModuleNotFoundError", content |-> <<>>]

\* ModelAdmin.has_view_or_change_permission(request, obj)
has_view_or_change_permission(request, device) ==
    device.pk \in request.perms

\* reverse('admin:otp_totp_totpdevice_config', kwargs={'pk': pk})
reverse(pk) ==
    IF route_registered /\ pk >= 0
    THEN [raised |-> "none", href |-> <<"config", pk>>]
    ELSE [raised |-> "NoReverseMatch", href |-> <<>>]

\* ----------------------------------------------------------- responses
Raise(exc) ==
    [raised |-> exc, status |-> 0, content_type |-> "", content |-> <<>>,
     template |-> "", device |-> None]

HttpResponse(content, status, content_type) ==
    [raised |-> "none", status |-> status, content_type |-> content_type,
     content |-> content, template |-> "", device |-> None]

TemplateResponse(template, device) ==
    [raised |-> "none", status |-> 200,
     content_type |-> "text/html; charset=utf-8",
     content |-> <<"html", template, config_url(device)>>,
     template |-> template, device |-> device.pk]

\* ------------------------------------------------------------ requests
\* a request carries its principal, which the permission checker sees as the
\* set of devices the principal may view or change
Requests == [perms : SUBSET PKs]

\* op.seq alternates with every adapter call, so that two consecutive
\* identical calls are still two steps
Call(name, perms, pk) ==
    [name |-> name, perms |-> perms, pk |-> pk, seq |-> 1 - op.seq]

\* a plain return value; the empty string is the empty sequence
Value(v) == [raised |-> "none", value |-> v]

\* the module has been imported, so the adapter class exists
Loaded == imports > 0

\* ------------------------------------------------------ get_list_display
\* variant: the column is appended whatever the setting says
get_list_display_always_link(request) ==
    /\ Loaded
    /\ LET super_list_display == list_display
       IN ret' = Value(super_list_display \o <<"qrcode_link">>)
    /\ op' = Call("get_list_display", {}, None)
    /\ UNCHANGED <<env, registry, imports, import_error, list_display>>

\* variant: list_display.append('qrcode_link') on the class attribute
get_list_display_in_place(request) ==
    /\ Loaded
    /\ list_display' = IF ~OTP_ADMIN_HIDE_SENSITIVE_DATA
                       THEN Append(list_display, "qrcode_link")
                       ELSE list_display
    /\ ret' = Value(list_display')
    /\ op' = Call("get_list_display", {}, None)
    /\ UNCHANGED <<env, registry, imports, import_error>>

get_list_display(request) ==
    /\ Loaded
    /\ LET super_list_display == list_display
       IN ret' = Value(IF ~OTP_ADMIN_HIDE_SENSITIVE_DATA
                       THEN super_list_display \o <<"qrcode_link">>
                       ELSE super_list_display)
    /\ op' = Call("get_list_display", {}, None)
    /\ UNCHANGED <<env, registry, imports, import_error, list_display>>

\* ------------------------------------------------------- get_fieldsets
\* obj is None when adding, else the pk of the existing device being edited
\* variant: the key is hidden whenever the setting is on, also when adding
get_fieldsets_ignores_obj(request, obj) ==
    /\ Loaded
    /\ LET configuration_fields ==
               IF OTP_ADMIN_HIDE_SENSITIVE_DATA
               THEN <<"step", "t0", "digits", "tolerance">>
               ELSE <<"key", "step", "t0", "digits", "tolerance">>
           fieldsets == <<
               <<"Identity", <<"user", "name", "confirmed">> >>,
               <<"Timestamps", <<"created_at", "last_used_at">> >>,
               <<"Configuration", configuration_fields>>,
               <<"State", <<"drift">> >>,
               <<"Throttling", <<"throttling_failure_timestamp",
                                 "throttling_failure_count">> >> >>
       IN ret' = Value(IF ~OTP_ADMIN_HIDE_SENSITIVE_DATA /\ obj # None
                       THEN Append(fieldsets, <<"None", <<"qrcode_link">> >>)
                       ELSE fieldsets)
    /\ op' = Call("get_fieldsets", {}, obj)
    /\ UNCHANGED <<env, registry, imports, import_error, list_display>>

get_fieldsets(request, obj) ==
    /\ Loaded
    /\ LET configuration_fields ==
               IF OTP_ADMIN_HIDE_SENSITIVE_DATA /\ obj # None
               THEN <<"step", "t0", "digits", "tolerance">>
               ELSE <<"key", "step", "t0", "digits", "tolerance">>
           fieldsets == <<
               <<"Identity", <<"user", "name", "confirmed">> >>,
               <<"Timestamps", <<"created_at", "last_used_at">> >>,
               <<"Configuration", configuration_fields>>,
               <<"State", <<"drift">> >>,
               <<"Throttling", <<"throttling_failure_timestamp",
                                 "throttling_failure_count">> >> >>
       IN ret' = Value(IF ~OTP_ADMIN_HIDE_SENSITIVE_DATA /\ obj # None
                       THEN Append(fieldsets, <<"None", <<"qrcode_link">> >>)
                       ELSE fieldsets)
    /\ op' = Call("get_fieldsets", {}, obj)
    /\ UNCHANGED <<env, registry, imports, import_error, list_display>>

\* --------------------------------------------------------- qrcode_link
\* pk is device.pk: the pk of a stored device, or None for an unsaved one
\* variant: no try/except around reverse()
qrcode_link_uncaught(pk) ==
    /\ Loaded
    /\ LET href == reverse(pk)
       IN ret' = IF href.raised # "none"
                 THEN [raised |-> href.raised, value |-> << >>]
                 ELSE Value(<<"<a href=", href.href, ">qrcode</a>">>)
    /\ op' = Call("qrcode_link", {}, pk)
    /\ UNCHANGED <<env, registry, imports, import_error, list_display>>

qrcode_link(pk) ==
    /\ Loaded
    /\ LET href == reverse(pk)
       IN ret' = IF href.raised # "none"
                 THEN Value(<< >>)
                 ELSE Value(<<"<a href=", href.href, ">qrcode</a>">>)
    /\ op' = Call("qrcode_link", {}, pk)
    /\ UNCHANGED <<env, registry, imports, import_error, list_display>>

\* --------------------------------------------------------- config_view
\* variant: the device is looked up before the setting is tested
config_view_lookup_first(request, pk) ==
    /\ Loaded
    /\ ret' = IF ~Exists(pk)
              THEN Raise("DoesNotExist")
              ELSE IF OTP_ADMIN_HIDE_SENSITIVE_DATA
              THEN Raise("PermissionDenied")
              ELSE IF ~has_view_or_change_permission(request, Device(pk))
              THEN Raise("PermissionDenied")
              ELSE TemplateResponse("otp_totp/admin/config.html", Device(pk))
    /\ op' = Call("config_view", request.perms, pk)
    /\ UNCHANGED <<env, registry, imports, import_error, list_display>>

\* variant: no permission check on the device
config_view_no_permission_check(request, pk) ==
    /\ Loaded
    /\ ret' = IF OTP_ADMIN_HIDE_SENSITIVE_DATA
              THEN Raise("PermissionDenied")
              ELSE IF ~Exists(pk)
              THEN Raise("DoesNotExist")
              ELSE TemplateResponse("otp_totp/admin/config.html", Device(pk))
    /\ op' = Call("config_view", request.perms, pk)
    /\ UNCHANGED <<env, registry, imports, import_error, list_display>>

config_view(request, pk) ==
    /\ Loaded
    /\ ret' = IF OTP_ADMIN_HIDE_SENSITIVE_DATA
              THEN Raise("PermissionDenied")
              ELSE IF ~Exists(pk)
              THEN Raise("DoesNotExist")
              ELSE IF ~has_view_or_change_permission(request, Device(pk))
              THEN Raise("PermissionDenied")
              ELSE TemplateResponse("otp_totp/admin/config.html", Device(pk))
    /\ op' = Call("config_view", request.perms, pk)
    /\ UNCHANGED <<env, registry, imports, import_error, list_display>>

\* --------------------------------------------------------- qrcode_view
\* variant: ModuleNotFoundError is not caught
qrcode_view_uncaught(request, pk) ==
    /\ Loaded
    /\ ret' = IF OTP_ADMIN_HIDE_SENSITIVE_DATA
              THEN Raise("PermissionDenied")
              ELSE IF ~Exists(pk)
              THEN Raise("DoesNotExist")
              ELSE IF ~has_view_or_change_permission(request, Device(pk))
              THEN Raise("PermissionDenied")
              ELSE LET image == write_qrcode_image(config_url(Device(pk)))
                   IN IF image.raised = "ModuleNotFoundError"
                      THEN Raise("ModuleNotFoundError")
                      ELSE HttpResponse(image.content, 200, "image/svg+xml")
    /\ op' = Call("qrcode_view", request.perms, pk)
    /\ UNCHANGED <<env, registry, imports, import_error, list_display>>

\* variant: the image is rendered from the first stored device
qrcode_view_first_device(request, pk) ==
    /\ Loaded
    /\ ret' = IF OTP_ADMIN_HIDE_SENSITIVE_DATA
              THEN Raise("PermissionDenied")
              ELSE IF ~Exists(pk)
              THEN Raise("DoesNotExist")
              ELSE IF ~has_view_or_change_permission(request, Device(pk))
              THEN Raise("PermissionDenied")
              ELSE LET first == CHOOSE p \in objects :
                                    \A q \in objects : p <= q
                       image == write_qrcode_image(config_url(Device(first)))
                   IN IF image.raised = "ModuleNotFoundError"
                      THEN HttpResponse(<< >>, 503, "text/html; charset=utf-8")
                      ELSE HttpResponse(image.content, 200, "image/svg+xml")
    /\ op' = Call("qrcode_view", request.perms, pk)
    /\ UNCHANGED <<env, registry, imports, import_error, list_display>>

qrcode_view(request, pk) ==
    /\ Loaded
    /\ ret' = IF OTP_ADMIN_HIDE_SENSITIVE_DATA
              THEN Raise("PermissionDenied")
              ELSE IF ~Exists(pk)
              THEN Raise("DoesNotExist")
              ELSE IF ~has_view_or_change_permission(request, Device(pk))
              THEN Raise("PermissionDenied")
              ELSE LET image == write_qrcode_image(config_url(Device(pk)))
                   IN IF image.raised = "ModuleNotFoundError"
                      THEN HttpResponse(<< >>, 503, "text/html; charset=utf-8")
                      ELSE HttpResponse(image.content, 200, "image/svg+xml")
    /\ op' = Call("qrcode_view", request.perms, pk)
    /\ UNCHANGED <<env, registry, imports, import_error, list_display>>

\* ------------------------------------------------ module-level register
Registered(model) == \E i \in 1..Len(registry) : registry[i][1] = model

\* admin.site.register(model, admin_class)
site_register(model, admin_class) ==
    IF Registered(model)
    THEN [raised |-> "AlreadyRegistered", registry |-> registry]
    ELSE [raised |-> "none",
          registry |-> Append(registry, <<model, admin_class>>)]

\* variant: AlreadyRegistered is not caught
register_uncaught ==
    /\ imports < MaxImports
    /\ imports' = imports + 1
    /\ LET r == site_register("TOTPDevice", "TOTPDeviceAdmin")
           escaped == r.raised
       IN /\ registry' = r.registry
          /\ import_error' = IF escaped # "none" THEN escaped ELSE import_error
    /\ UNCHANGED <<env, list_display, op, ret>>

\* one execution of the module body (an import of the module)
register ==
    /\ imports < MaxImports
    /\ imports' = imports + 1
    /\ LET r == site_register("TOTPDevice", "TOTPDeviceAdmin")
           escaped == IF r.raised = "AlreadyRegistered" THEN "none" ELSE r.raised
       IN /\ registry' = r.registry
          /\ import_error' = IF escaped # "none" THEN escaped ELSE import_error
    /\ UNCHANGED <<env, list_display, op, ret>>

\* --------------------------------------------------------- environment
\* the setting is read at request time and may be changed between requests
SetHideSensitiveData(b) ==
    /\ b # OTP_ADMIN_HIDE_SENSITIVE_DATA
    /\ OTP_ADMIN_HIDE_SENSITIVE_DATA' = b
    /\ UNCHANGED <<objects, qr_available, route_registered,
                   registry, imports, import_error, list_display, op, ret>>

\* the persistence layer creates and deletes devices
CreateDevice(pk) ==
    /\ pk \notin objects
    /\ objects' = objects \cup {pk}
    /\ UNCHANGED <<OTP_ADMIN_HIDE_SENSITIVE_DATA, qr_available,
                   route_registered, registry, imports, import_error,
                   list_display, op, ret>>

DeleteDevice(pk) ==
    /\ pk \in objects
    /\ objects' = objects \ {pk}
    /\ UNCHANGED <<OTP_ADMIN_HIDE_SENSITIVE_DATA, qr_available,
                   route_registered, registry, imports, import_error,
                   list_display, op, ret>>

\* the optional QR dependency is installed or missing
SetQrAvailable(b) ==
    /\ b # qr_available
    /\ qr_available' = b
    /\ UNCHANGED <<OTP_ADMIN_HIDE_SENSITIVE_DATA, objects,
                   route_registered, registry, imports, import_error,
                   list_display, op, ret>>

\* the admin URLs are included in the URLconf or not
SetRouteRegistered(b) ==
    /\ b # route_registered
    /\ route_registered' = b
    /\ UNCHANGED <<OTP_ADMIN_HIDE_SENSITIVE_DATA, objects,
                   qr_available, registry, imports, import_error,
                   list_display, op, ret>>

\* ------------------------------------------------------- specification
Init ==
    /\ OTP_ADMIN_HIDE_SENSITIVE_DATA = FALSE
    /\ objects = {}
    /\ qr_available = TRUE
    /\ route_registered = TRUE
    /\ registry = << >>
    /\ imports = 0
    /\ import_error = "none"
    /\ list_display = base_list_display
    /\ op = [name |-> "none", perms |-> {}, pk |-> None, seq |-> 0]
    /\ ret = Value(<< >>)

Next ==
    \/ register
    \/ \E request \in Requests : get_list_display(request)
    \/ \E request \in Requests, obj \in objects \cup {None} :
           get_fieldsets(request, obj)
    \/ \E pk \in objects \cup {None} : qrcode_link(pk)
    \/ \E request \in Requests, pk \in PKs : config_view(request, pk)
    \/ \E request \in Requests, pk \in PKs : qrcode_view(request, pk)
    \/ \E b \in BOOLEAN : SetHideSensitiveData(b)
    \/ \E pk \in PKs : CreateDevice(pk)
    \/ \E pk \in PKs : DeleteDevice(pk)
    \/ \E b \in BOOLEAN : SetQrAvailable(b)
    \/ \E b \in BOOLEAN : SetRouteRegistered(b)

Spec == Init /\ [][Next]_vars

\* -------------------------------------------------------------- claims
\* a step that is an adapter call, and which one
Called(name) == op'.seq # op.seq /\ op'.name = name
ViewCalled == Called("config_view") \/ Called("qrcode_view")
AnyCalled == op'.seq # op.seq

\* the HTTP status the framework's request handler gives an outcome: 403 for
\* PermissionDenied, 404 for Http404, 500 for any other uncaught exception
HttpStatus(r) ==
    IF r.raised = "none" THEN r.status
    ELSE IF r.raised = "PermissionDenied" THEN 403
    ELSE IF r.raised = "Http404" THEN 404
    ELSE 500

Granted(o) == o.pk \in o.perms
Count(seq, x) == Cardinality({i \in 1..Len(seq) : seq[i] = x})

\* C1: with the setting on, both views end in PermissionDenied (403) for every
\* pk, stored or not, permitted or not, QR module present or not
C1_FlagGateFirst ==
    [][ViewCalled /\ OTP_ADMIN_HIDE_SENSITIVE_DATA
         => /\ ret' = Raise("PermissionDenied")
            /\ HttpStatus(ret') = 403]_vars

\* a view answered PermissionDenied to a principal that holds the permission:
\* only the setting gate can have done that
C1_Witness ==
    /\ op.name \in {"config_view", "qrcode_view"}
    /\ Granted(op)
    /\ ret.raised = "PermissionDenied"

\* C2: with the setting off and the device stored, a principal without the
\* permission gets 403; a response (page, image or 503) is produced only with
\* the setting off, the device stored and the permission held on that device
C2_PermissionGate ==
    [][ViewCalled
         => /\ (/\ ~OTP_ADMIN_HIDE_SENSITIVE_DATA
                /\ Exists(op'.pk)
                /\ ~Granted(op'))
               => (ret'.raised = "PermissionDenied" /\ HttpStatus(ret') = 403)
            /\ ret'.raised = "none"
               => /\ ~OTP_ADMIN_HIDE_SENSITIVE_DATA
                  /\ Exists(op'.pk)
                  /\ Granted(op')
                  /\ (op'.name = "config_view" => ret'.device = op'.pk)]_vars

C2_Witness ==
    /\ op.name \in {"config_view", "qrcode_view"}
    /\ ~OTP_ADMIN_HIDE_SENSITIVE_DATA
    /\ Exists(op.pk)
    /\ ~Granted(op)
    /\ ret.raised = "PermissionDenied"

\* C3: with the setting off, a view called with a pk that is not stored ends
\* in a not-found (HTTP 404) response
C3_NotFoundIs404 ==
    [][ViewCalled /\ ~OTP_ADMIN_HIDE_SENSITIVE_DATA /\ ~Exists(op'.pk)
         => HttpStatus(ret') = 404]_vars

\* C4: qrcode view, setting off, device stored, permission held, QR module
\* missing: nothing is raised, the response is an empty 503 and it is not the
\* image/svg+xml response
C4_Qr503 ==
    [][(/\ Called("qrcode_view")
        /\ ~OTP_ADMIN_HIDE_SENSITIVE_DATA
        /\ Exists(op'.pk)
        /\ Granted(op')
        /\ ~qr_available)
         => /\ ret'.raised = "none"
            /\ ret'.status = 503
            /\ ret'.content = << >>
            /\ ret'.content_type # "image/svg+xml"]_vars

C4_Witness ==
    /\ op.name = "qrcode_view"
    /\ ret.raised = "none"
    /\ ret.status = 503

\* C5: qrcode view, setting off, device stored, permission held, QR module
\* present: image/svg+xml with a non-empty body, which is the rendering of the
\* provisioning URI of the device with the requested pk
C5_QrImage ==
    [][(/\ Called("qrcode_view")
        /\ ~OTP_ADMIN_HIDE_SENSITIVE_DATA
        /\ Exists(op'.pk)
        /\ Granted(op')
        /\ qr_available)
         => /\ ret'.raised = "none"
            /\ ret'.content_type = "image/svg+xml"
            /\ ret'.content # << >>
            /\ ret'.content = <<"svg", config_url(Device(op'.pk))>>]_vars

\* an image was served for the second device while another one is stored
C5_Witness ==
    /\ op.name = "qrcode_view"
    /\ ret.raised = "none"
    /\ ret.content_type = "image/svg+xml"
    /\ op.pk = 2
    /\ Exists(1)

\* C6: get_fieldsets leaves key out of Configuration exactly when the setting
\* is on and an existing object is passed; the other four sections never vary
C6_KeyField ==
    [][Called("get_fieldsets")
         => LET fs == ret'.value
            IN /\ Len(fs) >= 5
               /\ fs[1] = <<"Identity", <<"user", "name", "confirmed">> >>
               /\ fs[2] = <<"Timestamps", <<"created_at", "last_used_at">> >>
               /\ fs[3] = <<"Configuration",
                            IF OTP_ADMIN_HIDE_SENSITIVE_DATA /\ op'.pk # None
                            THEN <<"step", "t0", "digits", "tolerance">>
                            ELSE <<"key", "step", "t0", "digits", "tolerance">> >>
               /\ fs[4] = <<"State", <<"drift">> >>
               /\ fs[5] = <<"Throttling", <<"throttling_failure_timestamp",
                                            "throttling_failure_count">> >>]_vars

\* adding a device with the setting on: key is shown
C6_Witness ==
    /\ op.name = "get_fieldsets"
    /\ op.pk = None
    /\ OTP_ADMIN_HIDE_SENSITIVE_DATA
    /\ ret.value[3][2][1] = "key"

\* C7: the list display is the five base columns, followed by qrcode_link
\* exactly when the setting is off; get_fieldsets has the qrcode_link section
\* as a sixth section exactly when the setting is off and an object is passed
C7_QrLinkExposure ==
    [][/\ Called("get_list_display")
          => ret'.value = IF OTP_ADMIN_HIDE_SENSITIVE_DATA
                          THEN base_list_display
                          ELSE base_list_display \o <<"qrcode_link">>
       /\ Called("get_fieldsets")
          => IF ~OTP_ADMIN_HIDE_SENSITIVE_DATA /\ op'.pk # None
             THEN /\ Len(ret'.value) = 6
                  /\ ret'.value[6] = <<"None", <<"qrcode_link">> >>
             ELSE Len(ret'.value) = 5]_vars

C7_Witness ==
    /\ op.name = "get_list_display"
    /\ OTP_ADMIN_HIDE_SENSITIVE_DATA
    /\ ret.value = base_list_display

\* C8: an execution of the module body never lets an exception escape; one
\* that finds the device type registered leaves the registry unchanged; after
\* any number of executions the device type is registered exactly once
C8_RegisterIdempotent ==
    [][imports' # imports
         => /\ import_error' = "none"
            /\ (Registered("TOTPDevice") => registry' = registry)
            /\ Cardinality({i \in 1..Len(registry') :
                               registry'[i][1] = "TOTPDevice"}) = 1]_vars

C8_Witness ==
    /\ imports = 2
    /\ import_error = "none"
    /\ registry = << <<"TOTPDevice", "TOTPDeviceAdmin">> >>

\* C9: qrcode_link never raises; when reversing the config URL fails the cell
\* is the empty string, otherwise it is the link to the config view of the pk
C9_LinkNeverRaises ==
    [][Called("qrcode_link")
         => /\ ret'.raised = "none"
            /\ ret'.value = IF reverse(op'.pk).raised # "none"
                            THEN << >>
                            ELSE <<"<a href=", <<"config", op'.pk>>,
                                   ">qrcode</a>">>]_vars

\* the cell of a stored device while the route does not reverse
C9_Witness ==
    /\ op.name = "qrcode_link"
    /\ op.pk \in objects
    /\ ~route_registered
    /\ ret = Value(<< >>)

\* C10: no adapter call changes the setting, the device store, the registry
\* or the class-level list_display; the list display returned follows the
\* setting as it is at the call and holds qrcode_link at most once
C10_ReadOnly ==
    [][AnyCalled
         => /\ UNCHANGED <<OTP_ADMIN_HIDE_SENSITIVE_DATA, objects, qr_available,
                           route_registered, registry, imports, import_error,
                           list_display>>
            /\ op'.name = "get_list_display"
               => /\ Count(ret'.value, "qrcode_link") <= 1
                  /\ (Count(ret'.value, "qrcode_link") = 1)
                        = ~OTP_ADMIN_HIDE_SENSITIVE_DATA]_vars

\* a second consecutive get_list_display call with the setting off
C10_Witness ==
    /\ op.name = "get_list_display"
    /\ op.seq = 0
    /\ ~OTP_ADMIN_HIDE_SENSITIVE_DATA
    /\ Count(ret.value, "qrcode_link") = 1
    /\ list_display = base_list_display

====
